---- MODULE Spec2Model ----
(***************************************************************************)
(* Castlefall server (server.py): the room / round state machine, the      *)
(* session registry and the per-room draw pools.                           *)
(*                                                                         *)
(* One action per entry point of CastlefallFactory: register, unregister   *)
(* (connectionLost), kick and start_round; Tick is the wall clock.  The    *)
(* reactor runs every handler to completion, so each handler is one step.  *)
(* A client message that carries several keys (name / start / kick) runs   *)
(* the corresponding handlers back to back, which is a run of this model   *)
(* with no step of another connection in between.                          *)
(***************************************************************************)
EXTENDS Integers, Sequences, FiniteSets, Bags, TLC

VARIABLES
    now,              \* time.time(), in seconds
    rooms,            \* CastlefallFactory.rooms: room name -> Room (created on first reference)
    status_for_peer,  \* CastlefallFactory.status_for_peer: peer -> ClientStatus
    lost,             \* connections whose connectionLost has run
    sent,             \* bag of [to, obj]: the sendMessage calls of the last handler
    last,             \* the last handler call: its arguments and how it ended
    started,          \* per room, the successful start_round calls so far: <<[round, t]>>
    hist,             \* per wordlist, what each select_words call returned, in order (draw process)
    gen               \* per wordlist, the number of calls before the last (re)shuffle (draw process)

vars == <<now, rooms, status_for_peer, lost, sent, last, started, hist, gen>>

----------------------------------------------------------------------------
(* Bounds *)

MaxTime == 4          \* the clock stops here
MaxHist == 6          \* words handed out in the draw process

(* Inputs *)

RoomNames == {"A"}
PlayerNames == {"p1", "p2"}            \* names the clients of the registry process use
RoomPlayers == {"p1", "p2"}            \* names in the room process
NameOrder == <<"", "p1", "p2", "p3">>  \* the names in sorted() order
Conns == {"c1", "c2"}                  \* connections; each has its own peer

(* Program data and constants *)

wordlists == [animals |-> <<"cat", "dog", "fox">>,
              one     |-> <<"elk">>,
              twins   |-> <<"ant", "ant">>]
WordlistOrder == <<"animals", "one", "twins">>   \* sorted(wordlists.items())
version == "v0.2"
RateLimit == 2
DefaultWordcount == 18
None == "null"

Keys == (DOMAIN wordlists) \cup {"nosuch"}
RoundVals == 0..1
CountVals == -1..3

----------------------------------------------------------------------------
(* Helpers for dicts and lists *)

EmptyDict == [k \in {} |-> k]
DictSet(f, k, v) == [x \in (DOMAIN f) \cup {k} |-> IF x = k THEN v ELSE f[x]]
\* as DictDel, but every key goes
DictDelAll(f, k) == EmptyDict
\* del f[k]
DictDel(f, k) == [x \in (DOMAIN f) \ {k} |-> f[x]]

Min(a, b) == IF a < b THEN a ELSE b
Max(a, b) == IF a > b THEN a ELSE b

\* Python slice bounds: a negative index counts from the end, and both clamp.
SliceIndex(s, n) == IF n < 0 THEN Max(Len(s) + n, 0) ELSE Min(n, Len(s))
\* s[n:]
SliceFrom(s, n) == SubSeq(s, SliceIndex(s, n) + 1, Len(s))
\* s[:n]
SliceTo(s, n) == SubSeq(s, 1, SliceIndex(s, n))

Range(s) == {s[i] : i \in DOMAIN s}

\* the concatenation of a list of lists
RECURSIVE Flat(_)
Flat(ss) == IF ss = <<>> THEN <<>> ELSE Head(ss) \o Flat(Tail(ss))

\* every order random.shuffle can leave a list in
Bijections(n) == {p \in [1..n -> 1..n] : \A i, j \in 1..n : p[i] = p[j] => i = j}
Shuffles(s) == {[i \in 1..Len(s) |-> s[p[i]]] : p \in Bijections(Len(s))}

\* sorted(names)
Sorted(S) == SelectSeq(NameOrder, LAMBDA n : n \in S)

\* the orders of a set of names as a list
Orders(S) == {q \in [1..Cardinality(S) -> S] : \A i, j \in 1..Cardinality(S) : q[i] = q[j] => i = j}

----------------------------------------------------------------------------
(* Requests: the value of the "start" key.  A field is absent or has a     *)
(* JSON value.                                                             *)

Absent == [kind |-> "absent"]
Null == [kind |-> "null"]
IntVal(n) == [kind |-> "int", v |-> n]
StrVal(s) == [kind |-> "str", v |-> s]
Junk == [kind |-> "junk"]                \* a string that int() cannot parse

RoundFields == {Absent} \cup {IntVal(n) : n \in RoundVals}
WordlistFields == {Absent} \cup {StrVal(k) : k \in Keys}
WordcountFields == {Absent, Null, Junk} \cup {IntVal(n) : n \in 0..2}
Requests == [round : RoundFields, wordlist : WordlistFields, wordcount : WordcountFields]

\* the requests the clients of the registry process send
ClientRequests == [round : {Absent, IntVal(0), IntVal(1)},
                   wordlist : {StrVal("animals"), StrVal("nosuch")},
                   wordcount : {IntVal(2)}]

----------------------------------------------------------------------------
(* Room *)

\* Room.__init__
Room(t) == [d                |-> EmptyDict,
            round            |-> 0,
            last_start       |-> t,
            players_in_round |-> <<>>,
            assigned_words   |-> EmptyDict,
            words_left       |-> [k \in Keys |-> <<>>],   \* defaultdict(list)
            words            |-> <<>>]                     \* set by the first successful start

has_player(room, name) == name \in DOMAIN room.d
get_player_names(room) == Sorted(DOMAIN room.d)
get_assigned_word(room, name) ==
    IF name \in DOMAIN room.assigned_words THEN room.assigned_words[name] ELSE None

\* as Remaining, but the words handed out stay in the pool
RemainingKeepsAll(left, num) == left
\* left[num:], the words that stay in the pool
Remaining(left, num) == SliceFrom(left, num)
\* as Taken, but one word more than asked for
TakenOneMore(left, num) == SliceTo(left, num + 1)
\* left[:num], the words handed out
Taken(left, num) == SliceTo(left, num)

\* len(left) < num
NeedsShuffle(left, num) == Len(left) < num

\* Room.select_words: every outcome [raised, reshuffled, left, ret]
select_words(left, key, num) ==
    IF NeedsShuffle(left, num)
    THEN IF key \in DOMAIN wordlists
         THEN {[raised |-> FALSE, reshuffled |-> TRUE,
                left |-> Remaining(p, num), ret |-> Taken(p, num)] :
                    p \in Shuffles(wordlists[key])}
         ELSE {[raised |-> TRUE, reshuffled |-> FALSE, left |-> left, ret |-> <<>>]}   \* KeyError
    ELSE {[raised |-> FALSE, reshuffled |-> FALSE,
           left |-> Remaining(left, num), ret |-> Taken(left, num)]}

\* as OutOfSync, but only a round ahead of the room's is refused
OutOfSyncAheadOnly(round, field) == ~(field.kind = "int" /\ field.v <= round)
\* self.round != val.get('round')
OutOfSync(round, field) == ~(field.kind = "int" /\ field.v = round)

\* as TooSoon, with a limit of 1 second
TooSoonOneSecond(t, last_start) == t < last_start + 1
\* time.time() < self.last_start + 2
TooSoon(t, last_start) == t < last_start + RateLimit

\* as NextRound, counting by 2
NextRoundTwice(round) == round + 2
\* as NextRound, not counting
NextRoundStuck(round) == round
\* self.round += 1
NextRound(round) == round + 1

\* int(val.get('wordcount', 18)), ValueError -> 18; only called when the field is not null
ParseWordcount(field) ==
    CASE field.kind = "absent" -> DefaultWordcount
      [] field.kind = "junk"   -> DefaultWordcount
      [] field.kind = "int"    -> field.v

\* as Half, rounded up
HalfUp(n) == (n + 1) \div 2
\* len(named_clients) // 2
Half(n) == n \div 2

\* as TeamWord, every player on one team
TeamWordSame(i, half, word1, word2) == word1
\* word = word2 if i >= half else word1   (i counts from 0)
TeamWord(i, half, word1, word2) == IF i >= half THEN word2 ELSE word1

\* lines 139-145: the snapshot and the assignment, for one shuffle q of the
\* (name, client) pairs and one sample (positions a, b of words)
Assign(room, words, q, a, b) ==
    [room EXCEPT
        !.players_in_round = get_player_names(room),
        !.words            = words,
        !.assigned_words   =
            [n \in DOMAIN room.d |->
                LET i == CHOOSE k \in DOMAIN q : q[k] = n
                IN  TeamWord(i - 1, Half(Len(q)), words[a], words[b])]]

\* lines 135-146, after select_words returned sel
AfterDraw(room, sel, t) ==
    IF sel.raised \/ Len(sel.ret) < 2        \* KeyError, or random.sample's ValueError
    THEN {[ret |-> "raise", room |-> room, t |-> t]}
    ELSE {[ret |-> "true", room |-> Assign(room, sel.ret, q, ab[1], ab[2]), t |-> t] :
            q \in Orders(DOMAIN room.d),
            ab \in {x \in (DOMAIN sel.ret) \X (DOMAIN sel.ret) : x[1] # x[2]}}

\* lines 129-134, after round and last_start were written
AfterBump(room, val, t) ==
    IF val.wordcount.kind = "null"           \* int(None): TypeError
    THEN {[ret |-> "raise", room |-> room, t |-> t]}
    ELSE IF val.wordlist.kind = "absent"     \* val['wordlist']: KeyError
    THEN {[ret |-> "raise", room |-> room, t |-> t]}
    ELSE LET key == val.wordlist.v
             wordcount == ParseWordcount(val.wordcount)
         IN  UNION {AfterDraw([room EXCEPT !.words_left[key] = sel.left], sel, t) :
                        sel \in select_words(room.words_left[key], key, wordcount)}

\* Room.start_round called at clock reading t: every outcome [ret, room, t],
\* ret "true" / "false" for the returned bool and "raise" for an exception;
\* t is the clock when it ended (line 128 reads it a second time)
room_start_round(room, val, t) ==
    IF OutOfSync(room.round, val.round)
    THEN {[ret |-> "false", room |-> room, t |-> t]}
    ELSE IF TooSoon(t, room.last_start)
    THEN {[ret |-> "false", room |-> room, t |-> t]}
    ELSE UNION {AfterBump([room EXCEPT !.round = NextRound(@), !.last_start = t2], val, t2) :
                    t2 \in t..Min(t + 1, MaxTime)}

\* as get_words_shuffled, but the first word of every shuffle is dropped
get_words_shuffledShort(room) == {SliceFrom(w, 1) : w \in Shuffles(room.words)}
\* Room.get_words_shuffled
get_words_shuffled(room) == Shuffles(room.words)

----------------------------------------------------------------------------
(* CastlefallFactory *)

\* CastlefallFactory.words, never written after __init__
words == <<>>

\* [[k, len(v)] for k, v in sorted(wordlists.items())]
Catalog == [i \in DOMAIN WordlistOrder |-> <<WordlistOrder[i], Len(wordlists[WordlistOrder[i]])>>]

\* one sendMessage per entry of f (f: a dict of [to, obj])
Sends(f) == [m \in {f[k] : k \in DOMAIN f} |-> Cardinality({k \in DOMAIN f : f[k] = m})]

\* as send, but nothing goes out
sendNothing(client, obj) == EmptyBag
\* CastlefallFactory.send
send(client, obj) == SetToBag({[to |-> client, obj |-> obj]})

\* CastlefallFactory.broadcast: one sendMessage per value of room.d
broadcast(room, obj) == Sends([n \in DOMAIN room.d |-> [to |-> room.d[n], obj |-> obj]])

Open == Conns \ lost

Init ==
    /\ now = 0
    /\ rooms = EmptyDict
    /\ status_for_peer = EmptyDict
    /\ lost = {}
    /\ sent = EmptyBag
    /\ last = [op |-> "init"]
    /\ started = [r \in RoomNames |-> <<>>]
    /\ hist = [k \in Keys |-> <<>>]
    /\ gen = [k \in Keys |-> 0]

\* the wall clock
Tick ==
    /\ now < MaxTime
    /\ now' = now + 1
    /\ sent' = EmptyBag
    /\ last' = [op |-> "tick"]
    /\ UNCHANGED <<rooms, status_for_peer, lost, started, hist, gen>>

\* CastlefallFactory.register
register(room_name, name, client) ==
    /\ client \in Open
    /\ LET rs   == IF room_name \in DOMAIN rooms THEN rooms
                   ELSE DictSet(rooms, room_name, Room(now))     \* defaultdict(Room)
           room == rs[room_name]
           taken == has_player(room, name)
           old_client == room.d[name]
           notice == IF taken
                     THEN send(old_client, [msg |-> "Disconnected: your name was taken."])
                     ELSE EmptyBag
       IN  IF taken /\ old_client \notin DOMAIN status_for_peer
           THEN \* del self.status_for_peer[old_client.peer]: KeyError
                /\ rooms' = rs
                /\ sent' = notice
                /\ last' = [op |-> "register", client |-> client, room |-> room_name,
                            name |-> name, taken |-> taken, old |-> old_client,
                            ret |-> "raise"]
                /\ UNCHANGED status_for_peer
           ELSE LET st1   == IF taken THEN DictDel(status_for_peer, old_client)
                             ELSE status_for_peer
                    room1 == [room EXCEPT !.d = DictSet(@, name, client)]
                IN  /\ rooms' = [rs EXCEPT ![room_name] = room1]
                    /\ status_for_peer' = DictSet(st1, client, [room |-> room_name, name |-> name])
                    /\ sent' = notice
                               (+) broadcast(room1, [players |-> get_player_names(room1)])
                               (+) send(client,
                                        [room           |-> room_name,
                                         round          |-> room1.round,
                                         playersinround |-> room1.players_in_round,
                                         words          |-> words,
                                         word           |-> get_assigned_word(room1, name),
                                         wordlists      |-> Catalog,
                                         version        |-> version])
                    /\ last' = [op |-> "register", client |-> client, room |-> room_name,
                                name |-> name, taken |-> taken,
                                old |-> IF taken THEN old_client ELSE None,
                                ret |-> "none"]
    /\ UNCHANGED <<now, lost, started, hist, gen>>

\* the handler call before this one was a register of another connection
\* that took a name this connection held: {[room, name, by]}, else {}
TakenOver(client) ==
    IF /\ last.op = "register"
       /\ last.ret = "none"
       /\ last.taken
       /\ last.old = client
       /\ last.client # client
    THEN {[room |-> last.room, name |-> last.name, by |-> last.client]}
    ELSE {}

\* CastlefallProtocol.connectionLost -> CastlefallFactory.unregister
unregister(client) ==
    /\ client \in Open
    /\ lost' = lost \cup {client}
    /\ IF client \in DOMAIN status_for_peer
       THEN LET status == status_for_peer[client]
                room   == rooms[status.room]
                room1  == IF status.name # "" /\ has_player(room, status.name)
                          THEN [room EXCEPT !.d = DictDel(@, status.name)]
                          ELSE room
            IN  /\ status_for_peer' = DictDel(status_for_peer, client)
                /\ rooms' = [rooms EXCEPT ![status.room] = room1]
                /\ sent' = broadcast(room1, [players |-> get_player_names(room1)])
                /\ last' = [op |-> "unregister", client |-> client, room |-> status.room,
                            name |-> status.name, had_session |-> TRUE,
                            stale |-> TakenOver(client), ret |-> "none"]
       ELSE /\ sent' = EmptyBag
            /\ last' = [op |-> "unregister", client |-> client, had_session |-> FALSE,
                        stale |-> TakenOver(client), ret |-> "none"]
            /\ UNCHANGED <<rooms, status_for_peer>>
    /\ UNCHANGED <<now, started, hist, gen>>

\* CastlefallFactory.kick
kick(client, name) ==
    /\ client \in Open
    /\ IF client \notin DOMAIN status_for_peer
       THEN /\ sent' = EmptyBag
            /\ last' = [op |-> "kick", client |-> client, name |-> name,
                        had_session |-> FALSE, ret |-> "none"]
            /\ UNCHANGED <<rooms, status_for_peer>>
       ELSE LET room_name == status_for_peer[client].room
                room      == rooms[room_name]
                present   == has_player(room, name)
                target    == room.d[name]
                room1     == IF present THEN [room EXCEPT !.d = DictDel(@, name)] ELSE room
                notice    == IF present
                             THEN send(target, [msg |-> "Disconnected: you were kicked."])
                             ELSE EmptyBag
            IN  /\ rooms' = [rooms EXCEPT ![room_name] = room1]
                /\ status_for_peer' = IF present /\ target \in DOMAIN status_for_peer
                                      THEN DictDel(status_for_peer, target)
                                      ELSE status_for_peer
                /\ sent' = notice (+) broadcast(room1, [players |-> get_player_names(room1)])
                /\ last' = [op |-> "kick", client |-> client, room |-> room_name,
                            name |-> name, had_session |-> TRUE, present |-> present,
                            ret |-> "none"]
    /\ UNCHANGED <<now, lost, started, hist, gen>>

\* CastlefallFactory.start_round
start_round(client, val) ==
    /\ client \in Open
    /\ IF client \notin DOMAIN status_for_peer
       THEN \* room_of returns None; None.start_round: AttributeError
            /\ sent' = EmptyBag
            /\ last' = [op |-> "start_round", client |-> client, val |-> val,
                        had_session |-> FALSE, t |-> now, ret |-> "raise"]
            /\ UNCHANGED <<now, rooms, started>>
       ELSE LET room_name == status_for_peer[client].room
            IN  \E out \in room_start_round(rooms[room_name], val, now) :
                  /\ rooms' = [rooms EXCEPT ![room_name] = out.room]
                  /\ now' = out.t
                  /\ started' = IF out.ret = "true"
                                THEN [started EXCEPT ![room_name] =
                                         Append(@, [round |-> val.round.v, t |-> now])]
                                ELSE started
                  /\ last' = [op |-> "start_round", client |-> client, val |-> val,
                              had_session |-> TRUE, room |-> room_name, t |-> now,
                              ret |-> out.ret]
                  /\ IF out.ret = "true"
                     THEN \E view \in [DOMAIN out.room.d -> get_words_shuffled(out.room)] :
                            sent' = Sends([n \in DOMAIN out.room.d |->
                                        [to  |-> out.room.d[n],
                                         obj |-> [round          |-> out.room.round,
                                                  playersinround |-> out.room.players_in_round,
                                                  words          |-> view[n],
                                                  word           |-> get_assigned_word(out.room, n)]]])
                     ELSE sent' = EmptyBag
    /\ UNCHANGED <<status_for_peer, lost, hist, gen>>

\* The room process: one Room driven through its own methods, with every
\* request a client can put in the "start" key.
InitRoom ==
    /\ now = 0
    /\ rooms = [r \in {"A"} |-> [Room(0) EXCEPT !.d = DictSet(EmptyDict, "p1", "c1")]]
    /\ status_for_peer = EmptyDict
    /\ lost = {}
    /\ sent = EmptyBag
    /\ last = [op |-> "init"]
    /\ started = [r \in RoomNames |-> <<>>]
    /\ hist = [k \in Keys |-> <<>>]
    /\ gen = [k \in Keys |-> 0]

\* Room.set_player_client
set_player_client(name, p) ==
    /\ rooms' = [rooms EXCEPT !["A"].d = DictSet(@, name, p)]
    /\ last' = [op |-> "set_player_client"]
    /\ UNCHANGED <<now, status_for_peer, lost, sent, started, hist, gen>>

\* Room.delete_player_client, called for a name that is there
delete_player_client(name) ==
    /\ has_player(rooms["A"], name)
    /\ rooms' = [rooms EXCEPT !["A"].d = DictDel(@, name)]
    /\ last' = [op |-> "delete_player_client"]
    /\ UNCHANGED <<now, status_for_peer, lost, sent, started, hist, gen>>

\* Room.start_round
room_start(val) ==
    /\ \E out \in room_start_round(rooms["A"], val, now) :
          /\ rooms' = [rooms EXCEPT !["A"] = out.room]
          /\ now' = out.t
          /\ started' = IF out.ret = "true"
                        THEN [started EXCEPT !["A"] =
                                 Append(@, [round |-> val.round.v, t |-> now])]
                        ELSE started
          /\ last' = [op |-> "start_round", had_session |-> TRUE, room |-> "A",
                      t |-> now, ret |-> out.ret]
    /\ UNCHANGED <<status_for_peer, lost, sent, hist, gen>>

NextRoom ==
    \/ Tick
    \/ \E name \in RoomPlayers : set_player_client(name, "c1")
    \/ \E name \in RoomPlayers : delete_player_client(name)
    \/ \E val \in Requests : room_start(val)

SpecRoom == InitRoom /\ [][NextRoom]_vars

\* the number of words handed out so far in the draw process
KeyOrder == WordlistOrder \o <<"nosuch">>
HandedOut == Len(Flat(Flat([i \in DOMAIN KeyOrder |-> hist[KeyOrder[i]]])))

\* The draw process: Room.select_words on one room, any wordlist, any count.
select(key, num) ==
    /\ \E sel \in select_words(rooms["A"].words_left[key], key, num) :
          /\ rooms' = [rooms EXCEPT !["A"].words_left[key] = sel.left]
          /\ last' = [op |-> "select_words", key |-> key, num |-> num,
                      raised |-> sel.raised, reshuffled |-> sel.reshuffled, ret |-> sel.ret]
          /\ IF sel.raised \/ sel.ret = <<>>
             THEN UNCHANGED <<hist, gen>>
             ELSE /\ HandedOut + Len(sel.ret) <= MaxHist
                  /\ hist' = [hist EXCEPT ![key] = Append(@, sel.ret)]
                  /\ gen' = IF sel.reshuffled THEN [gen EXCEPT ![key] = Len(hist[key])] ELSE gen
    /\ UNCHANGED <<now, status_for_peer, lost, sent, started>>

NextDraw == \E key \in Keys, num \in CountVals : select(key, num)

SpecDraw == InitRoom /\ [][NextDraw]_vars

Next ==
    \/ Tick
    \/ \E room_name \in RoomNames, name \in PlayerNames, client \in Conns :
           register(room_name, name, client)
    \/ \E client \in Conns : unregister(client)
    \/ \E client \in Conns, name \in PlayerNames : kick(client, name)
    \/ \E client \in Conns, val \in ClientRequests : start_round(client, val)

Spec == Init /\ [][Next]_vars

\* The team process: Room.start_round on a room of 0 to 3 players, with the
\* two sampled words recorded.
TeamNames == {"p1", "p2", "p3"}
TeamRequests == [round : {IntVal(0), IntVal(1)},
                 wordlist : {StrVal("animals"), StrVal("twins")},
                 wordcount : {Absent, IntVal(2)}]

InitTeams ==
    /\ now = 0
    /\ \E S \in SUBSET TeamNames :
          rooms = [r \in {"A"} |-> [Room(0) EXCEPT !.d = [n \in S |-> "c1"]]]
    /\ status_for_peer = EmptyDict
    /\ lost = {}
    /\ sent = EmptyBag
    /\ last = [op |-> "init"]
    /\ started = [r \in RoomNames |-> <<>>]
    /\ hist = [k \in Keys |-> <<>>]
    /\ gen = [k \in Keys |-> 0]

\* Room.start_round; word1 and word2 are a sample (line 138) that gives the
\* assignment the call ended with
team_start(val) ==
    /\ \E out \in room_start_round(rooms["A"], val, now) :
          /\ rooms' = [rooms EXCEPT !["A"] = out.room]
          /\ now' = out.t
          /\ started' = IF out.ret = "true"
                        THEN [started EXCEPT !["A"] =
                                 Append(@, [round |-> val.round.v, t |-> now])]
                        ELSE started
          /\ IF out.ret = "true"
             THEN \E q \in Orders(DOMAIN out.room.d), a, b \in DOMAIN out.room.words :
                    /\ a # b
                    /\ out.room.assigned_words =
                           Assign(out.room, out.room.words, q, a, b).assigned_words
                    /\ last' = [op |-> "start_round", had_session |-> TRUE, room |-> "A",
                                t |-> now, ret |-> out.ret,
                                word1 |-> out.room.words[a], word2 |-> out.room.words[b]]
             ELSE last' = [op |-> "start_round", had_session |-> TRUE, room |-> "A",
                           t |-> now, ret |-> out.ret, word1 |-> None, word2 |-> None]
    /\ UNCHANGED <<status_for_peer, lost, sent, hist, gen>>

NextTeams ==
    \/ Tick
    \/ \E val \in TeamRequests : team_start(val)

SpecTeams == InitTeams /\ [][NextTeams]_vars

\* The registry process: register, connectionLost and kick over two rooms,
\* with the clock standing still.
RegistryRooms == {"A", "B"}
RegistryNames == {"", "p1", "p2"}      \* data['name'] is any string, the empty one included

NextRegistry ==
    \/ \E room_name \in RegistryRooms, name \in RegistryNames, client \in Conns :
           register(room_name, name, client)
    \/ \E client \in Conns : unregister(client)
    \/ \E client \in Conns, name \in RegistryNames : kick(client, name)

SpecRegistry == Init /\ [][NextRegistry]_vars

TypeOK == now \in 0..MaxTime

----------------------------------------------------------------------------
(* Vocabulary of the properties *)

NoRepeat(s) == \A i, j \in DOMAIN s : s[i] = s[j] => i = j

\* the request carries the room's current round
InSync(room, val) == val.round.kind = "int" /\ val.round.v = room.round

\* at least 2 seconds since the room's last_start
NotLimited(room, t) == t >= room.last_start + 2

\* the wordcount W a request asks for, where it parses
W(val) == IF val.wordcount.kind = "int" THEN val.wordcount.v ELSE 18
Parses(val) == val.wordcount.kind # "null"

KnownList(val) == val.wordlist.kind = "str" /\ val.wordlist.v \in DOMAIN wordlists
UnknownList(val) == val.wordlist.kind = "str" /\ val.wordlist.v \notin DOMAIN wordlists

\* round, lastStartTime, playersInRound, assignedWords, currentRoundWords, draw pools
SameRound(a, b) ==
    /\ a.round = b.round
    /\ a.last_start = b.last_start
    /\ a.players_in_round = b.players_in_round
    /\ a.assigned_words = b.assigned_words
    /\ a.words = b.words
    /\ a.words_left = b.words_left

\* the step is a start_round call of a connection with a session
IsStart(l) == l.op = "start_round" /\ l.had_session

----------------------------------------------------------------------------
\* C1: a start_round call with a wordlist name that is not in the WordBank,
\* made when the round-number and rate-limit checks pass, returns false and
\* leaves round, last_start, players_in_round, assigned_words, words and the
\* draw pools as they were.
C1_UnknownWordlistRejected ==
    [][(/\ IsStart(last')
        /\ UnknownList(last'.val)
        /\ InSync(rooms[last'.room], last'.val)
        /\ NotLimited(rooms[last'.room], last'.t))
       => (/\ last'.ret = "false"
           /\ SameRound(rooms'[last'.room], rooms[last'.room]))]_vars

\* C2: in every reachable room state, a start_round call that passes the
\* round-number and rate-limit checks and draws fewer than 2 words (wordcount
\* 0 or 1, or a wordlist of fewer than 2 words) returns false and leaves
\* round, last_start, players_in_round, assigned_words, words and the draw
\* pools as they were.
C2_ShortDrawRejected ==
    \A r \in DOMAIN rooms : \A val \in Requests :
        (/\ InSync(rooms[r], val)
         /\ NotLimited(rooms[r], now)
         /\ KnownList(val)
         /\ Parses(val)
         /\ (W(val) \in {0, 1} \/ Len(wordlists[val.wordlist.v]) < 2))
        => \A out \in room_start_round(rooms[r], val, now) :
               out.ret = "false" /\ SameRound(out.room, rooms[r])

\* C3: over register, unregister, kick and start_round steps, a room's round
\* starts at 0 and never decreases, and every successful start_round raises
\* round by exactly 1 and strictly raises last_start.
C3_RoundMonotone ==
    [][/\ \A r \in DOMAIN rooms :
             r \in DOMAIN rooms' /\ rooms'[r].round >= rooms[r].round
       /\ \A r \in (DOMAIN rooms') \ (DOMAIN rooms) : rooms'[r].round = 0
       /\ (IsStart(last') /\ last'.ret = "true")
            => /\ rooms'[last'.room].round = rooms[last'.room].round + 1
               /\ rooms'[last'.room].last_start > rooms[last'.room].last_start]_vars

\* a second successful start of the same room
C3_Witness ==
    /\ IsStart(last)
    /\ last.ret = "true"
    /\ Len(started[last.room]) = 2
    /\ rooms[last.room].round = 2

\* C4: after a start_round succeeded on a room at time t, every start_round
\* call on that room at a time before t + 2 returns false, whatever round it
\* carries, and leaves round and assigned_words as they were.
C4_RateLimit ==
    [][(/\ IsStart(last')
        /\ \E i \in DOMAIN started[last'.room] :
               last'.t < started[last'.room][i].t + 2)
       => (/\ last'.ret = "false"
           /\ rooms'[last'.room].round = rooms[last'.room].round
           /\ rooms'[last'.room].assigned_words = rooms[last'.room].assigned_words)]_vars

\* a call that carries the right round, less than 2 seconds after a success, was refused
C4_Witness ==
    /\ IsStart(last)
    /\ InSync(rooms[last.room], last.val)
    /\ KnownList(last.val)
    /\ \E i \in DOMAIN started[last.room] : last.t < started[last.room][i].t + 2
    /\ last.ret = "false"

\* C5: a start_round call whose round differs from the room's round, or that
\* has no round field, returns false however long ago the last start was,
\* and changes no room.
C5_OutOfSyncRejected ==
    [][(IsStart(last') /\ ~InSync(rooms[last'.room], last'.val))
       => (last'.ret = "false" /\ rooms' = rooms)]_vars

\* a call without a round field was refused although the rate limit had passed
C5_Witness ==
    /\ IsStart(last)
    /\ last.val.round.kind = "absent"
    /\ KnownList(last.val)
    /\ NotLimited(rooms[last.room], last.t)
    /\ started[last.room] # <<>>
    /\ last.ret = "false"

\* C6: in every room, no two successful start_round calls carried the same
\* round number.
C6_OneStartPerRound ==
    \A r \in DOMAIN started :
        \A i, j \in DOMAIN started[r] :
            started[r][i].round = started[r][j].round => i = j

\* a call carrying the round number of an earlier success was refused after
\* the rate limit had passed, and the room has had two successful starts
C6_Witness ==
    /\ IsStart(last)
    /\ last.ret = "false"
    /\ NotLimited(rooms[last.room], last.t)
    /\ last.val.round.kind = "int"
    /\ \E i \in DOMAIN started[last.room] : started[last.room][i].round = last.val.round.v
    /\ KnownList(last.val)

\* the words assigned to players
Assigned(room) == {room.assigned_words[n] : n \in DOMAIN room.assigned_words}

\* C7 as claimed: in every reachable room state with N players, every
\* successful start_round with a known wordlist and wordcount W >= 2 leaves
\* assigned_words with one entry per player, using exactly 2 distinct words,
\* both in words, and words of size min(W, size of the wordlist); for every
\* N, 0 and 1 included.
C7_TwoWordsAnyN ==
    \A r \in DOMAIN rooms : \A val \in Requests :
        (KnownList(val) /\ Parses(val) /\ W(val) >= 2)
        => \A out \in room_start_round(rooms[r], val, now) :
               out.ret = "true"
               => /\ DOMAIN out.room.assigned_words = DOMAIN rooms[r].d
                  /\ Cardinality(Assigned(out.room)) = 2
                  /\ Assigned(out.room) \subseteq Range(out.room.words)
                  /\ Len(out.room.words) = Min(W(val), Len(wordlists[val.wordlist.v]))

\* C7 amended: as above, but the assigned words are at most min(N, 2)
\* distinct words, and exactly min(N, 2) when the wordlist has no repeated
\* entry.
C7_Assignment ==
    \A r \in DOMAIN rooms : \A val \in Requests :
        (KnownList(val) /\ Parses(val) /\ W(val) >= 2)
        => \A out \in room_start_round(rooms[r], val, now) :
               out.ret = "true"
               => LET N == Cardinality(DOMAIN rooms[r].d)
                  IN  /\ DOMAIN out.room.assigned_words = DOMAIN rooms[r].d
                      /\ Cardinality(Assigned(out.room)) <= Min(N, 2)
                      /\ NoRepeat(wordlists[val.wordlist.v])
                           => Cardinality(Assigned(out.room)) = Min(N, 2)
                      /\ Assigned(out.room) \subseteq Range(out.room.words)
                      /\ Len(out.room.words) = Min(W(val), Len(wordlists[val.wordlist.v]))

\* a start succeeded with 2 players, 2 of the 3 words drawn and both teams' words in use
C7_Witness ==
    /\ last.op = "start_round"
    /\ last.ret = "true"
    /\ Cardinality(DOMAIN rooms["A"].d) = 2
    /\ DOMAIN rooms["A"].assigned_words = DOMAIN rooms["A"].d
    /\ Cardinality(Assigned(rooms["A"])) = 2
    /\ Len(rooms["A"].words) = 2
    /\ Range(rooms["A"].words) \subseteq Range(wordlists.animals)

\* C8: on a room that has had no successful start, a start_round call with
\* round 0, a known wordlist of at least 2 words and wordcount >= 2 returns
\* true and makes round 1, however soon after the room was created.
C8_FirstStartNotLimited ==
    [][(/\ IsStart(last')
        /\ started[last'.room] = <<>>
        /\ last'.val.round = IntVal(0)
        /\ KnownList(last'.val)
        /\ Len(wordlists[last'.val.wordlist.v]) >= 2
        /\ Parses(last'.val)
        /\ W(last'.val) >= 2)
       => (last'.ret = "true" /\ rooms'[last'.room].round = 1)]_vars

\* the words returned by calls i..j for a wordlist
Returned(key, i, j) == UNION {Range(hist[key][k]) : k \in i..j}

\* C9 as claimed: for a wordlist without repeated entries, when two calls
\* return the same word, the calls from the first to the second, both
\* included, return every word of the wordlist.
C9_ExhaustBeforeRepeat ==
    \A key \in DOMAIN wordlists :
        NoRepeat(wordlists[key])
        => \A i, j \in DOMAIN hist[key] :
               (i < j /\ Range(hist[key][i]) \cap Range(hist[key][j]) # {})
               => Range(wordlists[key]) \subseteq Returned(key, i, j)

\* C9 amended: for a wordlist without repeated entries, no word is returned
\* twice between two reshuffles, and the words still in the pool have not
\* been returned since the last reshuffle.
C9_NoRepeatWithinShuffle ==
    \A key \in DOMAIN wordlists :
        NoRepeat(wordlists[key])
        => LET since == Flat(SubSeq(hist[key], gen[key] + 1, Len(hist[key])))
           IN  /\ NoRepeat(since)
               /\ Range(since) \cap Range(rooms["A"].words_left[key]) = {}

\* a reshuffle threw words away and a word came back before the whole list had been returned
C9_Witness ==
    /\ last.op = "select_words"
    /\ last.key = "animals"
    /\ ~last.reshuffled
    /\ gen.animals > 0
    /\ \E i \in 1..gen.animals : \E j \in (gen.animals + 1)..Len(hist.animals) :
           /\ Range(hist.animals[i]) \cap Range(hist.animals[j]) # {}
           /\ ~(Range(wordlists.animals) \subseteq Returned("animals", i, j))

\* C10: for a wordlist without repeated entries and a count k >= 0, one
\* select_words call returns no word twice, returns only words of the
\* wordlist, and leaves a pool that shares no word with what it returned.
C10_DrawDistinct ==
    (/\ last.op = "select_words"
     /\ ~last.raised
     /\ last.num >= 0
     /\ last.key \in DOMAIN wordlists
     /\ NoRepeat(wordlists[last.key]))
    => /\ NoRepeat(last.ret)
       /\ Range(last.ret) \subseteq Range(wordlists[last.key])
       /\ Range(last.ret) \cap Range(rooms["A"].words_left[last.key]) = {}

\* a call took 1 word of the 2 that the pool still held
C10_Witness ==
    /\ last.op = "select_words"
    /\ last.key = "animals"
    /\ last.num = 1
    /\ ~last.reshuffled
    /\ Len(last.ret) = 1
    /\ Len(rooms["A"].words_left.animals) = 1

----------------------------------------------------------------------------
(* Vocabulary of the registry properties *)

NameTaken == [msg |-> "Disconnected: your name was taken."]
Kicked == [msg |-> "Disconnected: you were kicked."]

\* the sendMessage calls of the last handler that went to connection c
SentTo(bag, c) == {m \in BagToSet(bag) : m.to = c}

\* the (room, name) slots a connection occupies
Slots(c) == {<<r, n>> \in (DOMAIN rooms) \X RegistryNames :
                n \in DOMAIN rooms[r].d /\ rooms[r].d[n] = c}

\* C11: a register call for a name that is already present in the room
\* completes: the prior holder was sent the "name taken" notice, the prior
\* holder has no session afterwards (unless it is the registering connection
\* itself), the room maps the name to the registering connection, and that
\* connection has the session (room, name); whatever session the prior
\* holder had, none included.
C11_TakeoverCompletes ==
    [][(last'.op = "register" /\ last'.taken)
       => (/\ last'.ret = "none"
           /\ BagIn([to |-> last'.old, obj |-> NameTaken], sent')
           /\ (last'.old # last'.client => last'.old \notin DOMAIN status_for_peer')
           /\ rooms'[last'.room].d[last'.name] = last'.client
           /\ last'.client \in DOMAIN status_for_peer'
           /\ status_for_peer'[last'.client] = [room |-> last'.room, name |-> last'.name])]_vars

\* C12: the session table and the rooms agree: a connection has a session
\* exactly when it occupies exactly one (room, name) slot over all rooms, and
\* that slot is the one its session names.
C12_SessionsMatchSlots ==
    \A c \in Conns :
        /\ c \in DOMAIN status_for_peer <=> Cardinality(Slots(c)) = 1
        /\ c \in DOMAIN status_for_peer
             => Slots(c) = {<<status_for_peer[c].room, status_for_peer[c].name>>}

\* C13: a connectionLost of a connection removes no room entry that another
\* connection holds and no other connection's session; in particular, when
\* another connection has just taken the leaving connection's name over, the
\* room still maps that name to the newer connection afterwards, and the
\* newer connection still has its session.
C13_StaleUnregisterHarmless ==
    [][last'.op = "unregister"
       => (/\ \A r \in DOMAIN rooms : \A n \in DOMAIN rooms[r].d :
                 rooms[r].d[n] # last'.client
                 => (n \in DOMAIN rooms'[r].d /\ rooms'[r].d[n] = rooms[r].d[n])
           /\ \A c \in (DOMAIN status_for_peer) \ {last'.client} :
                 c \in DOMAIN status_for_peer' /\ status_for_peer'[c] = status_for_peer[c]
           /\ \A s \in last'.stale :
                 /\ has_player(rooms'[s.room], s.name)
                 /\ rooms'[s.room].d[s.name] = s.by
                 /\ s.by \in DOMAIN status_for_peer'
                 /\ status_for_peer'[s.by] = [room |-> s.room, name |-> s.name])]_vars

\* a connection was lost right after another connection took its name, and
\* the name is still the newer connection's
C13_Witness ==
    /\ last.op = "unregister"
    /\ last.stale # {}
    /\ \A s \in last.stale :
          /\ rooms[s.room].d[s.name] = s.by
          /\ s.by # last.client
          /\ status_for_peer[s.by] = [room |-> s.room, name |-> s.name]

\* the players message every entry of the room is sent
PlayersOf(room) == [players |-> Sorted(DOMAIN room.d)]

\* C14: a kick by a connection with a session acts on the room of that
\* session.  If the name is present there, the connection holding it is sent
\* the "kicked" notice, the name leaves the room, every other entry stays,
\* and that connection has no session afterwards while every other session
\* stays.  If the name is absent, no notice is sent and neither the room's
\* entries nor the sessions change.  In both cases every remaining entry's
\* connection is sent the room's player list, and no other room changes.
C14_Kick ==
    [][(last'.op = "kick" /\ last'.had_session)
       => LET r     == last'.room
              n     == last'.name
              room  == rooms[r]
              room1 == rooms'[r]
          IN  /\ r = status_for_peer[last'.client].room
              /\ last'.present = has_player(room, n)
              /\ IF has_player(room, n)
                 THEN /\ BagIn([to |-> room.d[n], obj |-> Kicked], sent')
                      /\ room1.d = DictDel(room.d, n)
                      /\ status_for_peer' = [c \in (DOMAIN status_for_peer) \ {room.d[n]} |->
                                                status_for_peer[c]]
                 ELSE /\ \A m \in BagToSet(sent') : "msg" \notin DOMAIN m.obj
                      /\ room1.d = room.d
                      /\ status_for_peer' = status_for_peer
              /\ \A m \in DOMAIN room1.d :
                    BagIn([to |-> room1.d[m], obj |-> PlayersOf(room1)], sent')
              /\ room1 = [room EXCEPT !.d = room1.d]
              /\ DOMAIN rooms' = DOMAIN rooms
              /\ \A r2 \in (DOMAIN rooms) \ {r} : rooms'[r2] = rooms[r2]]_vars

\* a connection kicked a name held by the other connection, whose session
\* named the other room; the other room still has its entries
C14_Witness ==
    /\ last.op = "kick"
    /\ last.had_session
    /\ last.present
    /\ ~has_player(rooms[last.room], last.name)
    /\ \E c \in Conns \ {last.client} :
          /\ BagIn([to |-> c, obj |-> Kicked], sent)
          /\ c \notin DOMAIN status_for_peer
          /\ \E r2 \in (DOMAIN rooms) \ {last.room} : \E n \in DOMAIN rooms[r2].d :
                rooms[r2].d[n] = c
    /\ BagIn([to |-> last.client, obj |-> PlayersOf(rooms[last.room])], sent)

\* C15: a start_round or kick call of a connection that has no session is
\* ignored: it raises no error, changes no room and no session, and sends no
\* message.
C15_NoSessionIgnored ==
    [][(last'.op \in {"start_round", "kick"} /\ ~last'.had_session)
       => (/\ last'.ret = "none"
           /\ rooms' = rooms
           /\ status_for_peer' = status_for_peer
           /\ sent' = EmptyBag)]_vars

\* the state snapshots among the messages sent to connection c
Snapshots(bag, c) == {m \in SentTo(bag, c) : "room" \in DOMAIN m.obj}

\* C16: the snapshot a register call sends to the registering connection
\* reports the room as it is then: round is the room's round, playersinround
\* the room's players_in_round, words holds exactly the room's words (those
\* of its most recent successful start), and word is the name's assigned word,
\* null exactly when the name is not in players_in_round.
C16_SnapshotIsRoomState ==
    [][(last'.op = "register" /\ last'.ret = "none")
       => LET room == rooms'[last'.room]
              snap == Snapshots(sent', last'.client)
          IN  /\ snap # {}
              /\ \A m \in snap :
                    /\ m.obj.room = last'.room
                    /\ m.obj.round = room.round
                    /\ m.obj.playersinround = room.players_in_round
                    /\ Len(m.obj.words) = Len(room.words)
                    /\ Range(m.obj.words) = Range(room.words)
                    /\ m.obj.word = None <=> last'.name \notin Range(room.players_in_round)
                    /\ last'.name \in Range(room.players_in_round)
                         => m.obj.word = room.assigned_words[last'.name]]_vars

\* the number of sendMessage calls of the last handler that went to connection c
CountTo(bag, c) == BagCardinality([m \in SentTo(bag, c) |-> bag[m]])

\* C17: a start_round call of a connection with a session that succeeds sends
\* one round message per (name, connection) entry of the room, and nothing
\* else: each entry's connection gets a message with the new round, the
\* room's players_in_round, a permutation of the room's words and the word
\* assigned to that name, and a connection gets as many messages as it holds
\* names.  A call that does not succeed sends no message at all.
C17_RoundMessages ==
    [][IsStart(last')
       => LET room == rooms'[last'.room]
          IN  IF last'.ret = "true"
              THEN /\ room.round = rooms[last'.room].round + 1
                   /\ BagCardinality(sent') = Cardinality(DOMAIN room.d)
                   /\ \A c \in Conns :
                         CountTo(sent', c) = Cardinality({n \in DOMAIN room.d : room.d[n] = c})
                   /\ \A n \in DOMAIN room.d :
                         \E m \in SentTo(sent', room.d[n]) :
                            /\ DOMAIN m.obj = {"round", "playersinround", "words", "word"}
                            /\ m.obj.round = room.round
                            /\ m.obj.playersinround = room.players_in_round
                            /\ m.obj.words \in Shuffles(room.words)
                            /\ m.obj.word = room.assigned_words[n]
              ELSE sent' = EmptyBag]_vars

\* a start succeeded in a room of two names held by two connections, and one
\* of the two messages shows the words in another order than the room's
C17_Witness ==
    /\ IsStart(last)
    /\ last.ret = "true"
    /\ \E n1, n2 \in DOMAIN rooms[last.room].d :
          rooms[last.room].d[n1] = "c1" /\ rooms[last.room].d[n2] = "c2"
    /\ BagCardinality(sent) = 2
    /\ \E m \in BagToSet(sent) : m.obj.words # rooms[last.room].words

\* the connections that hold an entry of the room
Members(room) == {room.d[n] : n \in DOMAIN room.d}

\* the connection a register or kick call took its name from, if another one
Removed(l, before) ==
    CASE l.op = "register" -> IF l.taken THEN {l.old} \ {l.client} ELSE {}
      [] l.op = "kick"     -> IF l.present THEN {before[l.room].d[l.name]} \ {l.client} ELSE {}
      [] OTHER             -> {}

\* C18: every register call, every connectionLost of a connection with a
\* session and every kick by a connection with a session sends, after the
\* change of the room's entries, a players message to every connection that
\* holds an entry of the room then; the list in it is the room's names in
\* sorted order; the connection the call evicted or kicked gets none.
C18_PlayersBroadcast ==
    [][(\/ last'.op = "register"
        \/ (last'.op \in {"unregister", "kick"} /\ last'.had_session))
       => LET room1 == rooms'[last'.room]
          IN  /\ \A c \in Members(room1) :
                    BagIn([to |-> c, obj |-> PlayersOf(room1)], sent')
              /\ \A m \in BagToSet(sent') :
                    "players" \in DOMAIN m.obj => m.obj = PlayersOf(room1)
              /\ \A c \in Removed(last', rooms) :
                    \A m \in SentTo(sent', c) : "players" \notin DOMAIN m.obj]_vars

----------------------------------------------------------------------------
\* the number of players the last start assigned the word w
Holding(w) ==
    Cardinality({p \in DOMAIN rooms["A"].assigned_words : rooms["A"].assigned_words[p] = w})

\* the last step was a successful start that sampled two different words
TwoWordStart == last.op = "start_round" /\ last.ret = "true" /\ last.word1 # last.word2

\* C19 as claimed: after a successful start_round with n players and two
\* different words, the players assigned word1 number ceil(n/2) and the
\* players assigned word2 number floor(n/2).
C19_LargerHalfWord1 ==
    TwoWordStart
    => LET n == Len(rooms["A"].players_in_round)
       IN  /\ Holding(last.word1) = (n + 1) \div 2
           /\ Holding(last.word2) = n \div 2

\* C19 amended: after a successful start_round with n players and two
\* different words, every player present has one of the two words, the
\* players assigned word1 number floor(n/2) and the players assigned word2
\* number ceil(n/2).
C19_LargerHalfWord2 ==
    TwoWordStart
    => LET n == Len(rooms["A"].players_in_round)
       IN  /\ n = Cardinality(DOMAIN rooms["A"].d)
           /\ DOMAIN rooms["A"].assigned_words = DOMAIN rooms["A"].d
           /\ Holding(last.word1) = n \div 2
           /\ Holding(last.word2) = (n + 1) \div 2
           /\ Holding(last.word1) + Holding(last.word2) = n

\* a start with 3 players gave word1 to one of them and word2 to two
C19_Witness ==
    /\ TwoWordStart
    /\ Len(rooms["A"].players_in_round) = 3
    /\ Holding(last.word1) = 1
    /\ Holding(last.word2) = 2

----------------------------------------------------------------------------
\* every session (room, name) of a connection c has room.d[name] = c
SessionOwnsSlot(status, rs) ==
    \A c \in DOMAIN status :
        /\ status[c].room \in DOMAIN rs
        /\ has_player(rs[status[c].room], status[c].name)
        /\ rs[status[c].room].d[status[c].name] = c

\* C20: in every reachable state every session (room, name) of a connection
\* c has the name in the room's player map, mapped to c; so a connectionLost
\* of a connection with a session always finds the name there (the warning
\* branch is not taken) and removes exactly the leaving connection's own
\* entry.
C20_UnregisterRemovesOwnSlot ==
    [][/\ SessionOwnsSlot(status_for_peer', rooms')
       /\ (last'.op = "unregister" /\ last'.had_session)
            => LET room == rooms[last'.room]
               IN  /\ has_player(room, last'.name)
                   /\ room.d[last'.name] = last'.client
                   /\ rooms'[last'.room].d = DictDel(room.d, last'.name)]_vars
====
